---- MODULE Spec2Model ----
(***************************************************************************)
(* Model of desktop_notifier.base.DesktopNotifierBase: the bounded cache   *)
(* of displayed notifications (_current_notifications, a deque with        *)
(* maxlen), the identifier index (_notification_for_nid) and the wrapper   *)
(* coroutines send, clear, clear_all around the backend primitives _send,  *)
(* _clear, _clear_all.  A coroutine suspends only at its await of the      *)
(* backend primitive, so each wrapper is a "begin" step (up to the await)  *)
(* and a "done" step (from the backend's outcome to the return).           *)
(***************************************************************************)
EXTENDS Integers, Sequences, FiniteSets, Bags

\* ------------------------------------------------------------------ bounds
NumNotifs == 2      \* Notification objects the callers hold
MaxLimit  == 2      \* largest integer notification_limit tried
MaxCalls  == 4      \* calls and callbacks per behaviour
MaxTasks  == 2      \* coroutines that may be suspended at the same time

\* --------------------------------------------------------------- constants
None           == -1   \* notification_limit=None / deque maxlen None
NoId           == 0    \* Notification._identifier = ""
NoNotification == 0    \* notification_to_replace = None
DEFAULT_SOUND  == "default"
NoSoundFile    == "None"      \* sound_file=None
app_name_default           == "Python"   \* DesktopNotifierBase(app_name=...)
notification_limit_default == None       \* DesktopNotifierBase(notification_limit=...)

Notifs == 1..NumNotifs
Ids    == 1..MaxCalls          \* non-empty identifiers a backend hands out
Limits == {None} \cup (0..MaxLimit)

\* values of the sound_file argument of Notification(...)
SoundFiles == {NoSoundFile, DEFAULT_SOUND, "a.wav", "b.wav", "c.wav"}

\* class AuthorisationError(Exception); "Exception" is any other subclass
ExceptionSubclasses == {"Exception", "AuthorisationError"}
\* asyncio.CancelledError derives from BaseException, not from Exception: it is
\* raised at the await when the task is cancelled or the caller's wait_for
\* times out
BaseExceptionSubclasses == {"CancelledError"}
\* what the await of a backend primitive may raise
Errors == ExceptionSubclasses \cup BaseExceptionSubclasses

VARIABLES
    app_name,             \* self.app_name
    constructed,          \* the Notification objects: how each was built, its sound_file
    notification_limit,   \* self.notification_limit, also the deque's maxlen
    current,              \* self._current_notifications (oldest first)
    nid,                  \* self._notification_for_nid: Ids -> notification or NoNotification
    identifier,           \* Notification.identifier of each notification object
    task,                 \* the bag of suspended coroutines: what each awaits, its locals
    ncalls,               \* calls and callbacks made so far (bounds the behaviour)
    sent,                 \* history: notifications delivered successfully, in order
    dismissed,            \* history: notifications the backend reported dismissed
    phase,                \* history: where each notification is in its lifecycle
    last                  \* history: what the last step did and how the call ended

vars == <<app_name, constructed, notification_limit, current, nid, identifier, task, ncalls, sent,
          dismissed, phase, last>>

\* ------------------------------------------------------- sequence helpers
Range(s) == {s[i] : i \in 1..Len(s)}

Count(s, x) == Cardinality({i \in 1..Len(s) : s[i] = x})

Min(a, b) == IF a <= b THEN a ELSE b

\* the last k elements of s
LastK(s, k) == SubSeq(s, Len(s) - k + 1, Len(s))

\* index of the first occurrence of x in s (x occurs in s)
FirstIndex(s, x) == CHOOSE i \in 1..Len(s) : s[i] = x /\ \A j \in 1..(i - 1) : s[j] # x

\* ----------------------------------------------------- collections.deque
\* deque.popleft() on a non-empty deque: the item and what is left
popleft(d) == [item |-> Head(d), rest |-> Tail(d)]

\* (variant: a deque built without maxlen)
append_unbounded(d, x, maxlen) == Append(d, x)

\* deque.append(x) with maxlen: a full deque discards from the left
append(d, x, maxlen) ==
    IF maxlen # None /\ Len(d) >= maxlen
    THEN IF maxlen = 0 THEN d ELSE Append(Tail(d), x)
    ELSE Append(d, x)

\* deque.appendleft(x) with maxlen: a full deque discards from the right
appendleft(d, x, maxlen) ==
    IF maxlen # None /\ Len(d) >= maxlen
    THEN IF maxlen = 0 THEN d ELSE <<x>> \o SubSeq(d, 1, Len(d) - 1)
    ELSE <<x>> \o d

\* deque.remove(x): removes the first occurrence; ValueError when absent
remove(d, x) ==
    IF x \in Range(d)
    THEN LET i == FirstIndex(d, x) IN SubSeq(d, 1, i - 1) \o SubSeq(d, i + 1, Len(d))
    ELSE d

\* ------------------------------------------------------------------ state
Keys(index) == {i \in Ids : index[i] # NoNotification}

\* a coroutine suspended at "await self._send", "await self._clear" or
\* "await self._clear_all", with its locals (before, keys: the cache and the
\* index keys when the call began)
Coroutine(pc, n, rep, before, keys) ==
    [pc |-> pc, n |-> n, rep |-> rep, before |-> before, keys |-> keys]

Suspended(pc) == {r \in BagToSet(task) : r.pc = pc}

Suspend(r) == task (+) SetToBag({r})

Resume(r) == task (-) SetToBag({r})

AllIdle == task = EmptyBag

\* a new call may start
CanStart == BagCardinality(task) < MaxTasks /\ ncalls < MaxCalls

Step(op, n, backend, outcome, exc, logged, rep, before, keys, held) ==
    [op |-> op, n |-> n, backend |-> backend, outcome |-> outcome, exc |-> exc,
     logged |-> logged, rep |-> rep, before |-> before, keys |-> keys, held |-> held]

\* the lifecycle after the notifications in ns were taken out of the cache,
\* which is now d: a delivered one that d no longer holds is cleared, the
\* others stay where they are
Left(ph, ns, d) ==
    [m \in Notifs |-> IF m \in ns /\ m \notin Range(d) /\ ph[m] = "Delivered"
                      THEN "Cleared" ELSE ph[m]]

\* (variant: sound=True fills in the default sound only when no file is given)
NotificationKeepsFile(sound, sound_file) ==
    [built |-> TRUE, sound |-> sound, arg |-> sound_file,
     sound_file |-> IF sound = TRUE /\ sound_file = NoSoundFile
                    THEN DEFAULT_SOUND ELSE sound_file,
     warning |-> IF sound = TRUE THEN "DeprecationWarning" ELSE "none"]

\* Notification.__init__, lines 144-165: the object built from the arguments
\* sound and sound_file, with the warning it emitted
Notification(sound, sound_file) ==
    [built |-> TRUE, sound |-> sound, arg |-> sound_file,
     sound_file |-> IF sound = TRUE THEN DEFAULT_SOUND ELSE sound_file,
     warning |-> IF sound = TRUE THEN "DeprecationWarning" ELSE "none"]

\* a Notification object that the callers have not built yet
NotBuilt ==
    [built |-> FALSE, sound |-> FALSE, arg |-> NoSoundFile, sound_file |-> NoSoundFile,
     warning |-> "none"]

\* DesktopNotifierBase.__init__(app_name, notification_limit), lines 214-217
NewNotifier(name, limit) ==
    /\ app_name = name
    /\ notification_limit = limit
    /\ current = <<>>
    /\ nid = [i \in Ids |-> NoNotification]

\* nothing has been called yet
NothingCalled ==
    /\ identifier = [n \in Notifs |-> NoId]
    /\ task = EmptyBag
    /\ ncalls = 0
    /\ sent = <<>>
    /\ dismissed = {}
    /\ phase = [n \in Notifs |-> "Unsent"]
    /\ last = Step("init", NoNotification, "none", "none", "none", FALSE,
                   NoNotification, <<>>, {}, 0)

\* DesktopNotifierBase(notification_limit=limit) for each limit tried, and
\* notifications built as Notification(title, message)
Init ==
    /\ \E limit \in Limits : NewNotifier(app_name_default, limit)
    /\ constructed = [n \in Notifs |-> Notification(FALSE, NoSoundFile)]
    /\ NothingCalled

\* ------------------------------------------------------------------- send
\* send, lines 244-247: the eviction test
at_limit(d, limit) == Len(d) = limit

\* the identifiers the backend may assign in _send before it returns: always a
\* non-empty one, either the replaced notification's (its OS slot is reused)
\* or the next one that no notification and no index entry holds
UsedIds == Keys(nid) \cup {identifier[m] : m \in Notifs}

NewIds(rep) ==
    LET free == Ids \ UsedIds
        reuse == IF rep # NoNotification /\ identifier[rep] # NoId
                 THEN {identifier[rep]} ELSE {}
    IN reuse \cup (IF free = {} THEN {} ELSE {CHOOSE i \in free : \A j \in free : i <= j})

\* send up to the await of _send (lines 244-250)
SendBegin(n) ==
    /\ CanStart
    /\ ncalls' = ncalls + 1
    /\ dismissed' = dismissed \ {n}
    /\ IF at_limit(current, notification_limit)
       THEN IF current = <<>>
            THEN \* popleft on an empty deque: IndexError leaves send
                 /\ last' = Step("send", n, "none", "raised", "IndexError", FALSE,
                                 NoNotification, <<>>, {}, Count(current, n))
                 /\ UNCHANGED <<current, task, phase>>
            ELSE /\ phase' = [phase EXCEPT ![n] = "Pending"]
                 /\ current' = popleft(current).rest
                 /\ task' = Suspend(Coroutine("send", n, popleft(current).item, current, {}))
                 /\ last' = Step("send_begin", n, "none", "pending", "none", FALSE,
                                 popleft(current).item, <<>>, {}, Count(current, n))
       ELSE /\ phase' = [phase EXCEPT ![n] = "Pending"]
            /\ task' = Suspend(Coroutine("send", n, NoNotification, current, {}))
            /\ last' = Step("send_begin", n, "none", "pending", "none", FALSE,
                            NoNotification, <<>>, {}, Count(current, n))
            /\ UNCHANGED current
    /\ UNCHANGED <<app_name, constructed, notification_limit, nid, identifier, sent>>

\* (variant: a handler that lets AuthorisationError through)
CaughtNotAuthorisation(e) == e \in ExceptionSubclasses \ {"AuthorisationError"}

\* "except Exception" (line 251)
Caught(e) == e \in ExceptionSubclasses

\* lines 256-257: undo the eviction
Rollback(d, rep, maxlen) ==
    IF rep # NoNotification THEN appendleft(d, rep, maxlen) ELSE d

\* _send returned: lines 259-261, with the identifier the backend assigned
SendOk(r, i) ==
    /\ r \in Suspended("send")
    /\ i \in NewIds(r.rep)
    /\ identifier' = [identifier EXCEPT ![r.n] = i]
    /\ current' = append(current, r.n, notification_limit)
    /\ nid' = [nid EXCEPT ![i] = r.n]
    /\ sent' = Append(sent, r.n)
    /\ dismissed' = dismissed \ {r.n}
    /\ phase' = [m \in Notifs |-> IF m = r.n THEN "Delivered"
                                  ELSE Left(phase, {r.rep}, current')[m]]
    /\ last' = Step("send", r.n, "ok", "returned", "none", FALSE,
                    r.rep, r.before, r.keys, Count(current, r.n))
    /\ task' = Resume(r)
    /\ UNCHANGED <<app_name, constructed, notification_limit, ncalls>>

\* _send raised e: lines 251-258
SendFail(r, e) ==
    /\ r \in Suspended("send")
    /\ e \in Errors
    /\ IF Caught(e)
       THEN /\ current' = Rollback(current, r.rep, notification_limit)
            /\ last' = Step("send", r.n, e, "returned", "none", TRUE,
                            r.rep, r.before, r.keys, Count(current, r.n))
       ELSE /\ UNCHANGED current
            /\ last' = Step("send", r.n, e, "raised", e, FALSE,
                            r.rep, r.before, r.keys, Count(current, r.n))
    /\ phase' = [phase EXCEPT ![r.n] = "Failed"]
    /\ task' = Resume(r)
    /\ UNCHANGED <<app_name, constructed, notification_limit, nid, identifier, ncalls, sent, dismissed>>

\* --------------------------------------- _clear_notification_from_cache
\* lines 268-271: remove from the deque, ValueError ignored
forget_cache(d, n) == remove(d, n)

\* lines 273-277: pop the notification's identifier from the index, KeyError ignored
forget_index(index, n) ==
    IF identifier[n] # NoId
    THEN [index EXCEPT ![identifier[n]] = NoNotification]
    ELSE index

\* the backend reports that n was closed (dismissed by the user, expired)
Forget(n) ==
    /\ ncalls < MaxCalls
    /\ ncalls' = ncalls + 1
    /\ current' = forget_cache(current, n)
    /\ nid' = forget_index(nid, n)
    /\ dismissed' = IF n \in Range(sent) THEN dismissed \cup {n} ELSE dismissed
    /\ phase' = Left(phase, {n}, current')
    /\ last' = Step("forget", n, "none", "returned", "none", FALSE,
                    NoNotification, <<>>, {}, Count(current, n))
    /\ UNCHANGED <<app_name, constructed, notification_limit, identifier, task, sent>>

\* ------------------------------------------------------------------ clear
\* (variant: _clear is awaited whatever the identifier is)
ClearBeginAlways(n) ==
    /\ CanStart
    /\ ncalls' = ncalls + 1
    /\ task' = Suspend(Coroutine("clear", n, NoNotification, <<>>, {}))
    /\ last' = Step("clear_begin", n, "none", "pending", "none", FALSE,
                    NoNotification, <<>>, {}, Count(current, n))
    /\ UNCHANGED <<app_name, constructed, notification_limit, current, nid, identifier,
                   sent, dismissed, phase>>

\* clear up to the await of _clear (line 316); with an empty identifier there
\* is no await and the call runs to its end (line 319)
ClearBegin(n) ==
    /\ CanStart
    /\ ncalls' = ncalls + 1
    /\ IF identifier[n] # NoId
       THEN /\ task' = Suspend(Coroutine("clear", n, NoNotification, <<>>, {}))
            /\ last' = Step("clear_begin", n, "none", "pending", "none", FALSE,
                            NoNotification, <<>>, {}, Count(current, n))
            /\ UNCHANGED <<current, nid, phase>>
       ELSE /\ current' = forget_cache(current, n)
            /\ phase' = Left(phase, {n}, current')
            /\ nid' = forget_index(nid, n)
            /\ last' = Step("clear", n, "none", "returned", "none", FALSE,
                            NoNotification, <<>>, {}, Count(current, n))
            /\ UNCHANGED task
    /\ UNCHANGED <<app_name, constructed, notification_limit, identifier, sent, dismissed>>

\* _clear returned: line 319
ClearOk(r) ==
    /\ r \in Suspended("clear")
    /\ current' = forget_cache(current, r.n)
    /\ nid' = forget_index(nid, r.n)
    /\ phase' = Left(phase, {r.n}, current')
    /\ last' = Step("clear", r.n, "ok", "returned", "none", FALSE,
                    NoNotification, r.before, r.keys,
                    Count(current, r.n))
    /\ task' = Resume(r)
    /\ UNCHANGED <<app_name, constructed, notification_limit, identifier, ncalls, sent, dismissed>>

\* _clear raised e: nothing in clear catches it (line 317)
ClearFail(r, e) ==
    /\ r \in Suspended("clear")
    /\ e \in Errors
    /\ last' = Step("clear", r.n, e, "raised", e, FALSE,
                    NoNotification, r.before, r.keys,
                    Count(current, r.n))
    /\ task' = Resume(r)
    /\ UNCHANGED <<app_name, constructed, notification_limit, current, nid, identifier, ncalls, sent,
                   dismissed, phase>>

\* -------------------------------------------------------------- clear_all
\* clear_all up to the await of _clear_all (line 338)
ClearAllBegin ==
    /\ CanStart
    /\ ncalls' = ncalls + 1
    /\ task' = Suspend(Coroutine("clear_all", NoNotification, NoNotification, <<>>, Keys(nid)))
    /\ last' = Step("clear_all_begin", NoNotification, "none", "pending", "none",
                    FALSE, NoNotification, <<>>, {}, 0)
    /\ UNCHANGED <<app_name, constructed, notification_limit, current, nid, identifier, sent, dismissed,
                   phase>>

\* _clear_all returned: lines 339-340
ClearAllOk(r) ==
    /\ r \in Suspended("clear_all")
    /\ current' = <<>>
    /\ nid' = [i \in Ids |-> NoNotification]
    /\ phase' = Left(phase, Notifs, current')
    /\ last' = Step("clear_all", NoNotification, "ok", "returned", "none", FALSE,
                    NoNotification, r.before, r.keys, 0)
    /\ task' = Resume(r)
    /\ UNCHANGED <<app_name, constructed, notification_limit, identifier, ncalls, sent, dismissed>>

\* _clear_all raised e: nothing in clear_all catches it (line 338)
ClearAllFail(r, e) ==
    /\ r \in Suspended("clear_all")
    /\ e \in Errors
    /\ last' = Step("clear_all", NoNotification, e, "raised", e, FALSE,
                    NoNotification, r.before, r.keys, 0)
    /\ task' = Resume(r)
    /\ UNCHANGED <<app_name, constructed, notification_limit, current, nid, identifier, ncalls, sent,
                   dismissed, phase>>

\* ----------------------------------------------------------- constructors
\* the callers build notification object n as Notification(..., sound=sound,
\* sound_file=sound_file)
Construct(n, sound, sound_file) ==
    /\ ~constructed[n].built
    /\ constructed' = [constructed EXCEPT ![n] = Notification(sound, sound_file)]
    /\ UNCHANGED <<app_name, notification_limit, current, nid, identifier, task,
                   ncalls, sent, dismissed, phase, last>>

\* --------------------------------------------------------- specifications
SendDone ==
    \E r \in Suspended("send") :
        \/ \E i \in Ids : SendOk(r, i)
        \/ \E e \in Errors : SendFail(r, e)

ClearDone ==
    \E r \in Suspended("clear") :
        \/ ClearOk(r)
        \/ \E e \in Errors : ClearFail(r, e)

ClearAllDone ==
    \E r \in Suspended("clear_all") :
        \/ ClearAllOk(r)
        \/ \E e \in Errors : ClearAllFail(r, e)

\* Any interleaving: calls overlap at their awaits, the backend's callback
\* arrives at any time.
Next ==
    \/ \E n \in Notifs : SendBegin(n)
    \/ SendDone
    \/ \E n \in Notifs : ClearBegin(n)
    \/ ClearDone
    \/ ClearAllBegin
    \/ ClearAllDone
    \/ \E n \in Notifs : Forget(n)

Spec == Init /\ [][Next]_vars

\* The same, with a backend whose _send returns or raises: the event loop
\* then resumes the send that awaits it.
SpecFair == Spec /\ WF_vars(SendDone)

\* One call at a time: a call starts, and the callback arrives, only when no
\* coroutine is suspended.
NextSeq ==
    \/ AllIdle /\ \E n \in Notifs : SendBegin(n)
    \/ SendDone
    \/ AllIdle /\ \E n \in Notifs : ClearBegin(n)
    \/ ClearDone
    \/ AllIdle /\ ClearAllBegin
    \/ ClearAllDone
    \/ AllIdle /\ \E n \in Notifs : Forget(n)

SpecSeq == Init /\ [][NextSeq]_vars

\* Callers that send a notification only while it is neither in the cache nor
\* being sent.
NotHeld(n) == n \notin Range(current) /\ \A r \in Suspended("send") : r.n # n

\* Any interleaving, no notification sent while it is cached or being sent.
NextOnce ==
    \/ \E n \in Notifs : NotHeld(n) /\ SendBegin(n)
    \/ SendDone
    \/ \E n \in Notifs : ClearBegin(n)
    \/ ClearDone
    \/ ClearAllBegin
    \/ ClearAllDone
    \/ \E n \in Notifs : Forget(n)

SpecOnce == Init /\ [][NextOnce]_vars

\* One call at a time, no notification recorded twice.
NextSeqOnce ==
    \/ AllIdle /\ \E n \in Notifs : NotHeld(n) /\ SendBegin(n)
    \/ SendDone
    \/ AllIdle /\ \E n \in Notifs : ClearBegin(n)
    \/ ClearDone
    \/ AllIdle /\ ClearAllBegin
    \/ ClearAllDone
    \/ AllIdle /\ \E n \in Notifs : Forget(n)

SpecSeqOnce == Init /\ [][NextSeqOnce]_vars

\* Sequences of send calls only, one at a time.
NextSend ==
    \/ AllIdle /\ \E n \in Notifs : SendBegin(n)
    \/ SendDone

SpecSend == Init /\ [][NextSend]_vars

\* Send calls only, overlapping at their awaits, no notification sent while it
\* is in the cache or being sent.
NextSendsOnce ==
    \/ \E n \in Notifs : NotHeld(n) /\ SendBegin(n)
    \/ SendDone

SpecSendsOnce == Init /\ [][NextSendsOnce]_vars

\* DesktopNotifierBase() with no arguments, before any Notification is built
InitDefault ==
    /\ NewNotifier(app_name_default, notification_limit_default)
    /\ constructed = [n \in Notifs |-> NotBuilt]
    /\ NothingCalled

\* The callers build their Notification objects with any sound arguments.
NextNotification ==
    \E n \in Notifs, sound \in BOOLEAN, sound_file \in SoundFiles :
        Construct(n, sound, sound_file)

SpecNotification == InitDefault /\ [][NextNotification]_vars

\* ----------------------------------------------------------------- claims
\* C1: when _send raises during send(n), with no other call or callback in
\* between, current_notifications after the call equals current_notifications
\* before it: the evicted entry is back at the head and n is not recorded.
C1_FailedSendRestoresCache ==
    (last.op = "send" /\ last.backend \in Errors) => current = last.before

\* C2: over sequences of send calls with an integer notification_limit L, the
\* cache never holds more than L entries and, after every call, it is exactly
\* the last min(L, k) successfully sent notifications in send order.
C2_CacheIsLastSuccessfulSends ==
    notification_limit # None =>
        /\ Len(current) <= notification_limit
        /\ AllIdle =>
              current = LastK(sent, Min(notification_limit, Len(sent)))

\* C3: in every reachable state the cache holds at most notification_limit
\* entries when the limit is an integer; with the limit None a send never
\* removes an entry and every delivery lengthens the cache by one.
C3_CacheNeverExceedsLimit ==
    /\ [](notification_limit # None => Len(current) <= notification_limit)
    /\ [][(notification_limit = None /\ last'.op \in {"send_begin", "send"}) =>
            IF last'.backend = "ok"
            THEN current' = Append(current, last'.n)
            ELSE current' = current]_vars

\* limit 1: two sends both started on the empty cache and both were delivered
C3_Witness ==
    /\ notification_limit = 1 /\ Len(current) = 1 /\ Len(sent) = 2
    /\ last.op = "send" /\ last.backend = "ok"
    /\ last.rep = NoNotification /\ last.before = <<>>

\* C4: whenever no call is in flight, the identifier index and the cache
\* correspond one to one: every indexed identifier maps to a notification that
\* is in the cache exactly once, and every cached notification with a
\* non-empty identifier is the index's entry for that identifier.
C4_IndexMatchesCache ==
    AllIdle =>
        /\ \A i \in Keys(nid) : Count(current, nid[i]) = 1
        /\ \A k \in 1..Len(current) :
              identifier[current[k]] # NoId =>
                  nid[identifier[current[k]]] = current[k]

\* C5: after clear_all(), whether _clear_all returned or raised, the cache is
\* empty and no identifier indexed before the call is still indexed.
C5_ClearAllEmptiesCache ==
    last.op = "clear_all" =>
        current = <<>> /\ Keys(nid) \cap last.keys = {}

\* C6: when _clear raises during clear(n), the error does not reach the
\* caller, and n is removed from the cache and its identifier from the index.
C6_ClearFailureNotRaised ==
    (last.op = "clear" /\ last.backend \in Errors) =>
        /\ last.outcome = "returned"
        /\ last.n \notin Range(current)
        /\ identifier[last.n] \notin Keys(nid)

\* C7: an AuthorisationError raised by the backend, also during send, reaches
\* the caller of the operation.
C7_AuthorisationErrorSurfaced ==
    last.backend = "AuthorisationError" =>
        last.outcome = "raised" /\ last.exc = "AuthorisationError"

\* C7 as amended: an AuthorisationError raised by _clear or _clear_all reaches
\* the caller; one raised by _send is caught by send like any other exception
\* and only logged as a warning.
C7_AuthorisationErrorSurfacedExceptBySend ==
    last.backend = "AuthorisationError" =>
        IF last.op = "send"
        THEN last.outcome = "returned" /\ last.logged
        ELSE last.outcome = "raised" /\ last.exc = "AuthorisationError"

\* _send raised AuthorisationError and send returned
C7_Witness ==
    /\ last.op = "send" /\ last.backend = "AuthorisationError"
    /\ last.outcome = "returned"

\* C8: whatever error _send raises, send returns normally and the failure is
\* logged as a warning.
C8_SendNeverRaisesOnDeliveryFailure ==
    (last.op = "send" /\ last.backend \in Errors) =>
        last.outcome = "returned" /\ last.logged

\* C8 as amended: every Exception subclass that _send raises is caught: send
\* returns normally and the failure is logged as a warning; a BaseException
\* that is not an Exception (the CancelledError of a cancelled task) is not
\* caught: it leaves send and nothing is logged.
C8_SendReturnsOnException ==
    (last.op = "send" /\ last.backend \in Errors) =>
        IF last.backend \in ExceptionSubclasses
        THEN last.outcome = "returned" /\ last.logged
        ELSE last.outcome = "raised" /\ last.exc = last.backend /\ ~last.logged

\* _send raised while another call was suspended, and send returned
C8_Witness ==
    /\ last.op = "send" /\ last.backend = "Exception"
    /\ last.outcome = "returned" /\ last.logged
    /\ ~AllIdle

\* C9: a delivered notification the backend has reported dismissed through
\* _clear_notification_from_cache is in neither the cache nor the index until
\* it is sent again.
C9_DismissedStaysAbsent ==
    \A n \in dismissed :
        /\ n \notin Range(current)
        /\ \A i \in Keys(nid) : nid[i] # n

\* C10: after clear(n) of a successfully sent n, with _clear succeeding, n is
\* not in the cache and its identifier is not in the index.
C10_ClearedIsAbsent ==
    (last.op = "clear" /\ last.backend = "ok" /\ last.n \in Range(sent)) =>
        /\ last.n \notin Range(current)
        /\ identifier[last.n] \notin Keys(nid)

\* C11: _clear_notification_from_cache is idempotent: once forget(n) has run,
\* running it again changes neither the cache nor the index; and forget(n) of
\* a notification that was never recorded changes nothing and raises nothing.
C11_ForgetIdempotent ==
    /\ last.op = "forget" =>
          /\ last.outcome = "returned"
          /\ forget_cache(current, last.n) = current
          /\ forget_index(nid, last.n) = nid
    /\ \A n \in Notifs \ Range(sent) :
          forget_cache(current, n) = current /\ forget_index(nid, n) = nid

\* C12: a notification moves only Unsent -> Pending -> {Delivered, Failed} and
\* Delivered -> Cleared; once Failed or Cleared it does not move again and does
\* not come into the cache or the index again.
C12_LifecycleHasNoWayBack ==
    [][\A n \in Notifs :
          /\ phase'[n] # phase[n] =>
                <<phase[n], phase'[n]>> \in
                    {<<"Unsent", "Pending">>, <<"Pending", "Delivered">>,
                     <<"Pending", "Failed">>, <<"Delivered", "Cleared">>}
          /\ phase[n] \in {"Failed", "Cleared"} =>
                /\ Count(current', n) <= Count(current, n)
                /\ \A i \in Ids : nid'[i] = n => nid[i] = n]_vars

\* C13: Notification(sound=True, sound_file=f) has sound_file DEFAULT_SOUND and
\* emits a DeprecationWarning, whatever f is; Notification(sound=False,
\* sound_file=f) has sound_file f and emits no warning.
C13_DeprecatedSoundFlag ==
    \A n \in Notifs :
        constructed[n].built =>
            IF constructed[n].sound
            THEN /\ constructed[n].sound_file = DEFAULT_SOUND
                 /\ constructed[n].warning = "DeprecationWarning"
            ELSE /\ constructed[n].sound_file = constructed[n].arg
                 /\ constructed[n].warning = "none"

\* one notification was built with sound=True and a sound file of its own,
\* another with sound=False and a sound file
C13_Witness ==
    \E n, m \in Notifs :
        /\ constructed[n].built /\ constructed[n].sound
        /\ constructed[n].arg \notin {NoSoundFile, DEFAULT_SOUND}
        /\ constructed[n].sound_file = DEFAULT_SOUND
        /\ constructed[m].built /\ ~constructed[m].sound
        /\ constructed[m].arg \notin {NoSoundFile, DEFAULT_SOUND}
        /\ constructed[m].sound_file = constructed[m].arg

\* C14: a notifier constructed without arguments has app_name "App", no
\* notification limit, an empty cache and an empty identifier index.
C14_DefaultNotifier ==
    ncalls = 0 =>
        /\ app_name = "App"
        /\ notification_limit = None
        /\ current = <<>>
        /\ Keys(nid) = {}

\* C15: when sends interleave at their awaits, every notification that was
\* delivered and has not since been cleared, dismissed or chosen as the evicted
\* entry of a later send is in the cache, and every cached notification is
\* indexed under its identifier.
C15_InterleavedSendsKeepCache ==
    \A n \in Notifs :
        /\ (phase[n] = "Delivered" /\ \A r \in Suspended("send") : r.rep # n) =>
              n \in Range(current)
        /\ n \in Range(current) =>
              identifier[n] # NoId /\ nid[identifier[n]] = n

\* C16: forget(n), alone or at the end of clear(n), removes an index entry
\* only when the entry maps to n: every entry that maps to another
\* notification stays, and the other notifications keep their places in the
\* cache, also after the backend reused n's identifier for its replacement.
C16_ForgetTouchesOnlyItsOwn ==
    [][(last'.op \in {"forget", "clear"} /\ last'.outcome = "returned") =>
          LET Other(m) == m # last'.n
          IN /\ \A i \in Ids : (nid[i] # NoNotification /\ nid[i] # last'.n) =>
                                   nid'[i] = nid[i]
             /\ SelectSeq(current', Other) = SelectSeq(current, Other)]_vars

\* C17: every send(n) calls _send, once and before n is recorded; the second
\* argument is the notification that was the oldest entry exactly when the
\* cache size equalled notification_limit as send started, and is none
\* otherwise, in which case no entry has been removed.
C17_SendCallsBackendOnce ==
    /\ last.op = "send" => last.backend # "none"
    /\ \A r \in Suspended("send") :
          IF Len(r.before) = notification_limit
          THEN r.rep = Head(r.before) /\ current = Tail(r.before)
          ELSE r.rep = NoNotification /\ current = r.before

\* C18: clear(n) awaits _clear exactly when n.identifier is non-empty; with an
\* empty identifier it makes no backend call, returns normally and leaves the
\* identifier index as it was.
C18_ClearCallsBackendIffIdentified ==
    /\ [](/\ last.op = "clear_begin" => identifier[last.n] # NoId
          /\ (last.op = "clear" /\ last.backend = "none") =>
                identifier[last.n] = NoId /\ last.outcome = "returned")
    /\ [][(last'.op \in {"clear", "clear_begin"} /\ identifier[last'.n] = NoId) =>
             /\ last'.op = "clear" /\ last'.backend = "none"
             /\ task' = task
             /\ nid' = nid]_vars

\* clear(n) of a notification whose delivery failed returned without a
\* backend call while another notification is indexed
C18_Witness ==
    /\ last.op = "clear" /\ last.backend = "none" /\ last.outcome = "returned"
    /\ phase[last.n] = "Failed" /\ identifier[last.n] = NoId
    /\ Keys(nid) # {} /\ current # <<>>

\* C19: for every notification_limit, None or an integer from 0 up, the
\* eviction step of send takes the head of the cache or nothing: it never
\* pops an empty cache and never makes send raise.
C19_EvictionNeverRaises ==
    /\ (last.op = "send" /\ last.backend = "none") => last.outcome # "raised"
    /\ \A r \in Suspended("send") :
          \/ r.rep = NoNotification /\ current = r.before
          \/ r.before # <<>> /\ r.rep = Head(r.before) /\ current = Tail(r.before)

\* C20: every send(n) that reached its await of _send completes once the
\* backend returns or raises: n is then Delivered, in the cache and indexed
\* under its identifier, or Failed, in neither the cache nor the index; no
\* notification stays Pending for ever.
C20_SendCompletes ==
    /\ [](\A n \in Notifs :
            (last.op = "send" /\ last.n = n /\ last.backend # "none") =>
                IF last.backend = "ok"
                THEN /\ phase[n] = "Delivered"
                     /\ n \in Range(current)
                     /\ identifier[n] # NoId /\ nid[identifier[n]] = n
                ELSE /\ phase[n] = "Failed"
                     /\ n \notin Range(current)
                     /\ \A i \in Ids : nid[i] # n)
    /\ \A n \in Notifs : (phase[n] = "Pending") ~> (phase[n] # "Pending")

====
